---------------------------- MODULE Spec2Model ----------------------------
(***************************************************************************)
(* Model of src/widgets/dock_area/allowed_splits.rs: the AllowedSplits     *)
(* permission set, a tuple struct around one u8 of which only the low four *)
(* bits are used.  An AllowedSplits value is modelled by its inner u8.     *)
(*                                                                         *)
(* The program is a library of pure functions.  The state machine is a     *)
(* caller that holds two AllowedSplits values (a, b), calls one function   *)
(* of the module per step, and records the call and what it returned.      *)
(***************************************************************************)
EXTENDS Integers

VARIABLES a,        \* first value held by the caller  (inner u8)
          b,        \* second value held by the caller (inner u8)
          call,     \* the last call made: its name and its arguments
          ret,      \* what the last call returned
          panicked  \* TRUE once a panic! has aborted the caller

vars == <<a, b, call, ret, panicked>>

(***************************************************************************)
(* u8 arithmetic                                                           *)
(***************************************************************************)
U8Max == 255

U8 == 0 .. U8Max

RECURSIVE U8And(_, _)
U8And(x, y) ==
    IF x = 0 \/ y = 0 THEN 0
    ELSE (x % 2) * (y % 2) + 2 * U8And(x \div 2, y \div 2)

RECURSIVE U8Or(_, _)
U8Or(x, y) ==
    IF x = 0 THEN y
    ELSE IF y = 0 THEN x
    ELSE (IF x % 2 = 1 \/ y % 2 = 1 THEN 1 ELSE 0) + 2 * U8Or(x \div 2, y \div 2)

(***************************************************************************)
(* Preset constants                                                        *)
(***************************************************************************)
ALL_without_left == 8 - 1    \* 0b0111
ALL == 15            \* 0b1111

LEFT == 8            \* 0b1000

RIGHT == 4           \* 0b0100

LEFT_RIGHT_typo == LEFT + 2    \* 0b1010
LEFT_RIGHT == 12     \* 0b1100

TOP == 2             \* 0b0010

BOTTOM == 1          \* 0b0001

TOP_BOTTOM == 3      \* 0b0011

NONE == 0            \* 0b0000

PresetNames ==
    {"ALL", "LEFT", "RIGHT", "LEFT_RIGHT", "TOP", "BOTTOM", "TOP_BOTTOM", "NONE"}

Preset(name) ==
    CASE name = "ALL"        -> ALL
      [] name = "LEFT"       -> LEFT
      [] name = "RIGHT"      -> RIGHT
      [] name = "LEFT_RIGHT" -> LEFT_RIGHT
      [] name = "TOP"        -> TOP
      [] name = "BOTTOM"     -> BOTTOM
      [] name = "TOP_BOTTOM" -> TOP_BOTTOM
      [] name = "NONE"       -> NONE

(***************************************************************************)
(* The functions of the module.  Panic is the outcome of a call that       *)
(* diverges in panic! and returns no value.                                *)
(***************************************************************************)
Panic == -1

default == ALL

from_u8_masked(u8) == u8 % 16
from_u8(u8) == IF u8 > 15 THEN Panic ELSE u8

bitand_as_or(self, rhs) == from_u8(U8Or(self, rhs))
bitand(self, rhs) == from_u8(U8And(self, rhs))

bitand_assign(self, rhs) == from_u8(U8And(self, rhs))

bitor_as_xor(self, rhs) == from_u8(U8Or(self, rhs) - U8And(self, rhs))
bitor(self, rhs) == from_u8(U8Or(self, rhs))

bitor_assign_as_add(self, rhs) == from_u8((self + rhs) % (U8Max + 1))
bitor_assign(self, rhs) == from_u8(U8Or(self, rhs))

top_bottom_mask(self) == U8And(self, BOTTOM) # 0
top(self) == U8And(self, TOP) # 0

bottom(self) == U8And(self, BOTTOM) # 0

top_or_bottom(self) == U8And(self, TOP_BOTTOM) # 0

left(self) == U8And(self, LEFT) # 0

right(self) == U8And(self, RIGHT) # 0

left_or_right_both(self) == U8And(self, LEFT_RIGHT) = LEFT_RIGHT
left_or_right(self) == U8And(self, LEFT_RIGHT) # 0

none(self) == self = NONE

all_not_none(self) == self # NONE
all(self) == self = ALL

Split == {"Left", "Right", "Above", "Below"}

allowed_swapped(self, tree_split) ==
    CASE tree_split = "Left"  -> left(self)
      [] tree_split = "Right" -> right(self)
      [] tree_split = "Above" -> bottom(self)
      [] tree_split = "Below" -> top(self)
allowed(self, tree_split) ==
    CASE tree_split = "Left"  -> left(self)
      [] tree_split = "Right" -> right(self)
      [] tree_split = "Above" -> top(self)
      [] tree_split = "Below" -> bottom(self)

(***************************************************************************)
(* What a call returns                                                     *)
(***************************************************************************)
Value(v) == [kind |-> "splits", v |-> v]

Bool(v) == [kind |-> "bool", v |-> v]

Unit == [kind |-> "unit"]

Diverged == [kind |-> "panic"]

Returned(r) == IF r = Panic THEN Diverged ELSE Value(r)

(***************************************************************************)
(* The caller                                                              *)
(***************************************************************************)
Init ==
    /\ a = default
    /\ b = default
    /\ call = [op |-> "default"]
    /\ ret = Value(default)
    /\ panicked = FALSE

\* AllowedSplits::default()
Default ==
    /\ ~panicked
    /\ call' = [op |-> "default"]
    /\ ret' = Value(default)
    /\ UNCHANGED <<a, b, panicked>>

\* AllowedSplits::ALL, AllowedSplits::LEFT, ...
Const ==
    /\ ~panicked
    /\ \E name \in PresetNames :
          /\ call' = [op |-> "const", name |-> name]
          /\ ret' = Value(Preset(name))
    /\ UNCHANGED <<a, b, panicked>>

\* let a = <the value just returned>;  (AllowedSplits is Copy)
LetA ==
    /\ ~panicked
    /\ ret.kind = "splits"
    /\ a' = ret.v
    /\ call' = [op |-> "let_a"]
    /\ UNCHANGED <<b, ret, panicked>>

\* let b = <the value just returned>;
LetB ==
    /\ ~panicked
    /\ ret.kind = "splits"
    /\ b' = ret.v
    /\ call' = [op |-> "let_b"]
    /\ UNCHANGED <<a, ret, panicked>>

\* AllowedSplits::from_u8(u8)
FromU8 ==
    /\ ~panicked
    /\ \E u8 \in U8 :
          /\ call' = [op |-> "from_u8", u8 |-> u8]
          /\ ret' = Returned(from_u8(u8))
          /\ panicked' = (from_u8(u8) = Panic)
    /\ UNCHANGED <<a, b>>

\* a & b
BitAnd ==
    /\ ~panicked
    /\ call' = [op |-> "bitand", self |-> a, rhs |-> b]
    /\ ret' = Returned(bitand(a, b))
    /\ panicked' = (bitand(a, b) = Panic)
    /\ UNCHANGED <<a, b>>

\* a | b
BitOr ==
    /\ ~panicked
    /\ call' = [op |-> "bitor", self |-> a, rhs |-> b]
    /\ ret' = Returned(bitor(a, b))
    /\ panicked' = (bitor(a, b) = Panic)
    /\ UNCHANGED <<a, b>>

\* a &= b
BitAndAssign ==
    /\ ~panicked
    /\ call' = [op |-> "bitand_assign", self |-> a, rhs |-> b]
    /\ LET r == bitand_assign(a, b)
       IN  IF r = Panic
           THEN /\ panicked' = TRUE
                /\ ret' = Diverged
                /\ a' = a
           ELSE /\ panicked' = FALSE
                /\ ret' = Unit
                /\ a' = r
    /\ UNCHANGED b

\* a |= b
BitOrAssign ==
    /\ ~panicked
    /\ call' = [op |-> "bitor_assign", self |-> a, rhs |-> b]
    /\ LET r == bitor_assign(a, b)
       IN  IF r = Panic
           THEN /\ panicked' = TRUE
                /\ ret' = Diverged
                /\ a' = a
           ELSE /\ panicked' = FALSE
                /\ ret' = Unit
                /\ a' = r
    /\ UNCHANGED b

Query(op, answer) ==
    /\ ~panicked
    /\ call' = [op |-> op, self |-> a]
    /\ ret' = Bool(answer)
    /\ UNCHANGED <<a, b, panicked>>

Top == Query("top", top(a))

Bottom == Query("bottom", bottom(a))

TopOrBottom == Query("top_or_bottom", top_or_bottom(a))

Left == Query("left", left(a))

Right == Query("right", right(a))

LeftOrRight == Query("left_or_right", left_or_right(a))

None == Query("none", none(a))

All == Query("all", all(a))

\* a.allowed(&tree_split)
Allowed ==
    /\ ~panicked
    /\ \E tree_split \in Split :
          /\ call' = [op |-> "allowed", self |-> a, tree_split |-> tree_split]
          /\ ret' = Bool(allowed(a, tree_split))
    /\ UNCHANGED <<a, b, panicked>>

Next ==
    \/ Default
    \/ Const
    \/ LetA
    \/ LetB
    \/ FromU8
    \/ BitAnd
    \/ BitOr
    \/ BitAndAssign
    \/ BitOrAssign
    \/ Top
    \/ Bottom
    \/ TopOrBottom
    \/ Left
    \/ Right
    \/ LeftOrRight
    \/ None
    \/ All
    \/ Allowed

Spec == Init /\ [][Next]_vars

(***************************************************************************)
(* Vocabulary of the properties                                            *)
(***************************************************************************)
\* Bit of weight mask (a power of two) of the raw integer v, by arithmetic.
BitSet(v, mask) == (v \div mask) % 2 = 1

Domain == 0 .. 15

Directions == {"Left", "Right", "Top", "Bottom"}

Enabled(x, d) ==
    CASE d = "Left"   -> left(x)
      [] d = "Right"  -> right(x)
      [] d = "Top"    -> top(x)
      [] d = "Bottom" -> bottom(x)

\* C1: raw construction from any v > 15 panics and returns no value; the
\* value is neither accepted nor clamped or masked into [0,15].
C1_OutOfRangePanics ==
    (call.op = "from_u8" /\ call.u8 > 15) =>
        /\ panicked
        /\ ret = Diverged
        /\ ret.kind # "splits"

C1_Witness ==
    /\ call.op = "from_u8"
    /\ call.u8 = 255
    /\ panicked
    /\ ret.kind = "panic"

\* C2: raw construction from any v in [0,15] succeeds, and left, right, top,
\* bottom of the result are bits 3, 2, 1, 0 of v.
C2_RoundTrip ==
    (call.op = "from_u8" /\ call.u8 <= 15) =>
        /\ ~panicked
        /\ ret.kind = "splits"
        /\ left(ret.v)   <=> BitSet(call.u8, 8)
        /\ right(ret.v)  <=> BitSet(call.u8, 4)
        /\ top(ret.v)    <=> BitSet(call.u8, 2)
        /\ bottom(ret.v) <=> BitSet(call.u8, 1)

C2_Witness ==
    /\ call.op = "from_u8"
    /\ call.u8 = 10
    /\ ret.kind = "splits"
    /\ left(ret.v) /\ ~right(ret.v) /\ top(ret.v) /\ ~bottom(ret.v)

\* C3: every value held or returned after any sequence of operations has its
\* integer in [0,15], and the only call that ever panics is a raw
\* construction from an integer above 15: the algebra, the predicates and the
\* lookup never do.
C3_RangeInvariant ==
    /\ a \in Domain
    /\ b \in Domain
    /\ ret.kind = "splits" => ret.v \in Domain
    /\ panicked => (call.op = "from_u8" /\ call.u8 > 15)
    /\ call.op \in {"bitand", "bitor"} => ret.kind = "splits"
    /\ call.op \in {"bitand_assign", "bitor_assign"} => ret = Unit

C3_Witness ==
    /\ call.op = "bitor_assign"
    /\ call.self = 9
    /\ call.rhs = 15
    /\ a = 15
    /\ ~panicked

\* C4: a & b enables a direction iff both operands do, a | b iff one of them
\* does; a &= b leaves old a & b in a and a |= b leaves old a | b in a, with
\* b unchanged.
C4_AlgebraSemantics ==
    /\ call.op = "bitand" =>
          /\ ret.kind = "splits"
          /\ \A d \in Directions :
                Enabled(ret.v, d) <=> (Enabled(call.self, d) /\ Enabled(call.rhs, d))
    /\ call.op = "bitor" =>
          /\ ret.kind = "splits"
          /\ \A d \in Directions :
                Enabled(ret.v, d) <=> (Enabled(call.self, d) \/ Enabled(call.rhs, d))
    /\ call.op = "bitand_assign" =>
          /\ a = bitand(call.self, call.rhs)
          /\ b = call.rhs
          /\ \A d \in Directions :
                Enabled(a, d) <=> (Enabled(call.self, d) /\ Enabled(call.rhs, d))
    /\ call.op = "bitor_assign" =>
          /\ a = bitor(call.self, call.rhs)
          /\ b = call.rhs
          /\ \A d \in Directions :
                Enabled(a, d) <=> (Enabled(call.self, d) \/ Enabled(call.rhs, d))

C4_Witness ==
    /\ call.op = "bitand_assign"
    /\ call.self = 13
    /\ call.rhs = 6
    /\ a = 4
    /\ b = 6

\* C5: allowed(Left), allowed(Right), allowed(Above), allowed(Below) agree
\* with left(), right(), top(), bottom(), that is with bits 3, 2, 1, 0 alone.
C5_AllowedLookup ==
    call.op = "allowed" =>
        /\ ret.kind = "bool"
        /\ call.tree_split = "Left"  =>
              (ret.v = left(call.self)   /\ ret.v = BitSet(call.self, 8))
        /\ call.tree_split = "Right" =>
              (ret.v = right(call.self)  /\ ret.v = BitSet(call.self, 4))
        /\ call.tree_split = "Above" =>
              (ret.v = top(call.self)    /\ ret.v = BitSet(call.self, 2))
        /\ call.tree_split = "Below" =>
              (ret.v = bottom(call.self) /\ ret.v = BitSet(call.self, 1))

C5_Witness ==
    /\ call.op = "allowed"
    /\ call.tree_split = "Above"
    /\ call.self = 14
    /\ ret = Bool(TRUE)

\* C6: intersection and union are commutative, associative and idempotent.
C6_AlgebraLaws ==
    /\ call.op = "bitand" =>
          /\ ret = Value(bitand(call.rhs, call.self))
          /\ \A c \in Domain :
                bitand(ret.v, c) = bitand(call.self, bitand(call.rhs, c))
          /\ bitand(call.self, call.self) = call.self
    /\ call.op = "bitor" =>
          /\ ret = Value(bitor(call.rhs, call.self))
          /\ \A c \in Domain :
                bitor(ret.v, c) = bitor(call.self, bitor(call.rhs, c))
          /\ bitor(call.self, call.self) = call.self

C6_Witness ==
    /\ call.op = "bitor"
    /\ call.self = 9
    /\ call.rhs = 3
    /\ ret = Value(11)

\* C7: ALL absorbs under union and is the identity of intersection, NONE is
\* the identity of union and absorbs under intersection; NONE | LEFT is LEFT
\* and ALL & TOP has top alone.
C7_IdentityAbsorbing ==
    /\ (call.op = "bitor" /\ call.rhs = ALL)   => ret = Value(ALL)
    /\ (call.op = "bitand" /\ call.rhs = ALL)  => ret = Value(call.self)
    /\ (call.op = "bitor" /\ call.rhs = NONE)  => ret = Value(call.self)
    /\ (call.op = "bitand" /\ call.rhs = NONE) => ret = Value(NONE)
    /\ (call.op = "bitor" /\ call.self = NONE /\ call.rhs = LEFT) =>
          ret = Value(LEFT)
    /\ (call.op = "bitand" /\ call.self = ALL /\ call.rhs = TOP) =>
          /\ ret.kind = "splits"
          /\ top(ret.v) /\ ~left(ret.v) /\ ~right(ret.v) /\ ~bottom(ret.v)

C7_Witness ==
    /\ call.op = "bitand"
    /\ call.self = ALL
    /\ call.rhs = TOP
    /\ ret = Value(2)

\* C8: left_or_right() is left() or right(), top_or_bottom() is top() or
\* bottom(); TOP_BOTTOM.left_or_right() is false, TOP_BOTTOM.top_or_bottom()
\* is true.
C8_EitherPredicates ==
    /\ call.op = "left_or_right" =>
          /\ ret = Bool(left(call.self) \/ right(call.self))
          /\ call.self = TOP_BOTTOM => ret = Bool(FALSE)
    /\ call.op = "top_or_bottom" =>
          /\ ret = Bool(top(call.self) \/ bottom(call.self))
          /\ call.self = TOP_BOTTOM => ret = Bool(TRUE)

C8_Witness ==
    /\ call.op = "left_or_right"
    /\ call.self = 9
    /\ ret = Bool(TRUE)

\* C9: none() holds iff no direction is enabled (the value is NONE), all()
\* iff all four are (the value is ALL); no value satisfies both.
C9_NoneAll ==
    /\ call.op = "none" =>
          /\ ret.v <=> (\A d \in Directions : ~Enabled(call.self, d))
          /\ ret.v <=> (call.self = NONE)
          /\ ret.v => ~all(call.self)
          /\ call.self = ALL => ret = Bool(FALSE)
    /\ call.op = "all" =>
          /\ ret.v <=> (\A d \in Directions : Enabled(call.self, d))
          /\ ret.v <=> (call.self = ALL)
          /\ ret.v => ~none(call.self)
          /\ call.self = NONE => ret = Bool(FALSE)

C9_Witness ==
    /\ call.op = "all"
    /\ call.self = ALL
    /\ ret = Bool(TRUE)

\* C10: LEFT_RIGHT = LEFT | RIGHT, TOP_BOTTOM = TOP | BOTTOM,
\* ALL = LEFT_RIGHT | TOP_BOTTOM; LEFT, RIGHT, TOP, BOTTOM each enable their
\* own direction alone, NONE enables none; the default is ALL and allows
\* every split.
OwnDirection(name) ==
    CASE name = "LEFT"   -> {"Left"}
      [] name = "RIGHT"  -> {"Right"}
      [] name = "TOP"    -> {"Top"}
      [] name = "BOTTOM" -> {"Bottom"}
      [] name = "NONE"   -> {}

C10_Presets ==
    /\ (call.op = "bitor" /\ call.self = LEFT /\ call.rhs = RIGHT) =>
          ret = Value(LEFT_RIGHT)
    /\ (call.op = "bitor" /\ call.self = TOP /\ call.rhs = BOTTOM) =>
          ret = Value(TOP_BOTTOM)
    /\ (call.op = "bitor" /\ call.self = LEFT_RIGHT /\ call.rhs = TOP_BOTTOM) =>
          ret = Value(ALL)
    /\ (call.op = "const" /\ call.name \in {"LEFT", "RIGHT", "TOP", "BOTTOM", "NONE"}) =>
          \A d \in Directions : Enabled(ret.v, d) <=> d \in OwnDirection(call.name)
    /\ call.op = "default" =>
          /\ ret = Value(ALL)
          /\ \A tree_split \in Split : allowed(ret.v, tree_split)

C10_Witness ==
    /\ call.op = "bitor"
    /\ call.self = LEFT_RIGHT
    /\ call.self = 12
    /\ call.rhs = TOP_BOTTOM
    /\ ret = Value(ALL)


=============================================================================
